---- MODULE Spec2Model ----
(***************************************************************************)
(* Firebase LED controller (src/code.ino): setup() initialises Serial, the *)
(* three LED pins and the WiFi link; loop() fetches /leds.json over HTTPS, *)
(* searches the body for "red":true, "green":true and "blue":true, drives  *)
(* the pins accordingly when the status is 200, and waits 2 seconds.       *)
(*                                                                         *)
(* Strings are sequences of one-character strings, so String::indexOf is a *)
(* real substring search.                                                  *)
(***************************************************************************)
EXTENDS Integers, Sequences, FiniteSets, TLC

\* ------------------------------------------------------------------------
\* Configuration (src/code.ino lines 36-38, 93, 142)
\* ------------------------------------------------------------------------
RED == 2
GREEN == 3
BLUE == 4

LoopDelayMs == 2000
ConnectDelayMs == 500

HTTP_OK == 200

HIGH == "HIGH"
LOW == "LOW"

WL_CONNECTED == "WL_CONNECTED"

\* Saturation point of the observation counters (writes, requests and
\* delays counted since the last reset point).
MaxCount == 3

Pins == {RED, GREEN, BLUE}

Q == "\""

redMarker == <<Q, "r", "e", "d", Q, ":", "t", "r", "u", "e">>
greenMarker == <<Q, "g", "r", "e", "e", "n", Q, ":", "t", "r", "u", "e">>
blueMarker == <<Q, "b", "l", "u", "e", Q, ":", "t", "r", "u", "e">>

\* ------------------------------------------------------------------------
\* Inputs: what the external collaborators can return
\* ------------------------------------------------------------------------
\* WiFi.status() values (WiFiNINA wl_status_t)
WiFiStatuses ==
  {"WL_IDLE_STATUS", "WL_NO_SSID_AVAIL", "WL_CONNECT_FAILED",
   "WL_DISCONNECTED", WL_CONNECTED}

\* client.responseStatusCode(): HTTP codes and the negative HttpClient
\* errors (-1 connection failed, -3 timed out)
StatusCodes == {200, 201, 404, -1, -3}

KeyName(k) ==
  IF k = RED THEN <<"r", "e", "d">>
  ELSE IF k = GREEN THEN <<"g", "r", "e", "e", "n">>
  ELSE <<"b", "l", "u", "e">>

KeyPart(k) == <<Q>> \o KeyName(k) \o <<Q, ":">>

TrueText == <<"t", "r", "u", "e">>
FalseText == <<"f", "a", "l", "s", "e">>

MemberKinds == {"absent", "true", "false", "quoted"}

Member(k, kind) ==
  IF kind = "absent" THEN <<>>
  ELSE IF kind = "true" THEN KeyPart(k) \o TrueText
  ELSE IF kind = "false" THEN KeyPart(k) \o FalseText
  ELSE KeyPart(k) \o <<Q>> \o TrueText \o <<Q>>

JoinComma(ms) ==
  IF Len(ms) = 0 THEN <<>>
  ELSE IF Len(ms) = 1 THEN ms[1]
  ELSE IF Len(ms) = 2 THEN ms[1] \o <<",">> \o ms[2]
  ELSE ms[1] \o <<",">> \o ms[2] \o <<",">> \o ms[3]

NonEmpty(m) == m # <<>>

\* a flat object holding the members that are not absent, in key order
Render(vr, vg, vb) ==
  <<"{">> \o JoinComma(SelectSeq(<<Member(RED, vr), Member(GREEN, vg), Member(BLUE, vb)>>, NonEmpty))
          \o <<"}">>

ObjectBodies == {Render(vr, vg, vb) : vr \in MemberKinds, vg \in MemberKinds, vb \in MemberKinds}

\* {"red":true  (truncated) and every shorter prefix, the empty body included
TruncatedRed == <<"{">> \o redMarker
TruncatedBodies == {SubSeq(TruncatedRed, 1, n) : n \in 0..Len(TruncatedRed)}

Scenario1 == Render("true", "true", "true")
Scenario2 == Render("false", "true", "false")
RedTrailing == <<"{">> \o redMarker \o <<"x", "}">>
GreenInsideRed == <<"{", Q, "r", "e">> \o greenMarker \o <<"d", Q, ":">> \o TrueText \o <<"}">>

OddBodies ==
  { <<"{", Q, "R", "e", "d", Q, ":">> \o TrueText \o <<"}">>,
    <<"{">> \o KeyPart(GREEN) \o <<"T", "R", "U", "E", "}">>,
    <<"{">> \o KeyPart(BLUE) \o <<" ">> \o TrueText \o <<"}">>,
    <<"{">> \o KeyPart(GREEN) \o <<"1", "}">>,
    RedTrailing,
    <<"{", Q, "n", Q, ":", "{">> \o blueMarker \o <<"}", "}">>,
    <<"{">> \o redMarker \o <<",", ",">> \o blueMarker \o <<"}">>,
    GreenInsideRed,
    <<"{", Q, "r", "e">> \o KeyPart(GREEN) \o FalseText \o <<"d", Q, ":">> \o TrueText \o <<"}">> }

Bodies == ObjectBodies \cup TruncatedBodies \cup OddBodies

\* ------------------------------------------------------------------------
\* State
\* ------------------------------------------------------------------------
VARIABLES
  pc,           \* position of the single thread of control
  gpio,         \* level: level of each LED pin; writes: digitalWrite calls
                \* since the current loop() pass started (or since boot)
  wifiBegun,    \* WiFi.begin has been called
  wifiStatus,   \* last value read from WiFi.status()
  statusCode,   \* loop(): int statusCode
  response,     \* loop(): String response
  requests,     \* client.get calls since the current loop() pass started
  polled,       \* some client.get call has been issued since boot
  delays,       \* delay() calls since the last client.get (or since boot)
  lastDelayMs,  \* argument of the last delay() call, 0 when none yet
  levelBefore,  \* pin levels when the current loop() pass started
  prevOk,       \* the previous loop() pass got status 200
  hadGood,      \* some earlier loop() pass got status 200
  prevGoodBody, \* body of the last earlier status-200 pass
  prevGoodLevel \* pin levels when that pass finished

vars ==
  <<pc, gpio, wifiBegun, wifiStatus, statusCode, response, requests, polled,
    delays, lastDelayMs, levelBefore, prevOk, hadGood, prevGoodBody, prevGoodLevel>>

Bump(n) == IF n < MaxCount THEN n + 1 ELSE MaxCount

AllLow == [p \in Pins |-> LOW]

\* ------------------------------------------------------------------------
\* Library calls
\* ------------------------------------------------------------------------
digitalWrite(g, pin, level) ==
  [level |-> [g.level EXCEPT ![pin] = level], writes |-> Bump(g.writes)]

\* indexOf as a search that ignores letter case
Lower(c) ==
  IF c = "T" THEN "t" ELSE IF c = "R" THEN "r" ELSE IF c = "U" THEN "u"
  ELSE IF c = "E" THEN "e" ELSE c

indexOfIgnoreCase(s, t) ==
  LET hits == {i \in 0..(Len(s) - Len(t)) :
                 \A j \in 1..Len(t) : Lower(s[i + j]) = Lower(t[j])}
  IN IF Len(s) = 0 \/ hits = {} THEN -1
     ELSE CHOOSE i \in hits : \A j \in hits : i <= j

\* String::indexOf(str): index of the first occurrence, -1 when there is none
indexOf(s, t) ==
  LET hits == {i \in 0..(Len(s) - Len(t)) : SubSeq(s, i + 1, i + Len(t)) = t}
  IN IF Len(s) = 0 \/ hits = {} THEN -1
     ELSE CHOOSE i \in hits : \A j \in hits : i <= j

\* ------------------------------------------------------------------------
\* Helper functions of the sketch
\* ------------------------------------------------------------------------
\* setLED switching the pin over instead of switching it on
setLEDToggle(g, pin, on) ==
  IF on THEN digitalWrite(g, pin, IF g.level[pin] = HIGH THEN LOW ELSE HIGH)
  ELSE digitalWrite(g, pin, LOW)

setLED(g, pin, on) ==
  IF on THEN digitalWrite(g, pin, HIGH) ELSE digitalWrite(g, pin, LOW)

\* applyLEDsFromResponse searching for the key alone, without :true's value
applyLEDsKeyOnly(g, resp) ==
  LET g1 == IF indexOf(resp, KeyPart(RED)) >= 0
            THEN setLED(g, RED, TRUE) ELSE setLED(g, RED, FALSE)
      g2 == IF indexOf(resp, KeyPart(GREEN)) >= 0
            THEN setLED(g1, GREEN, TRUE) ELSE setLED(g1, GREEN, FALSE)
  IN IF indexOf(resp, KeyPart(BLUE)) >= 0
     THEN setLED(g2, BLUE, TRUE) ELSE setLED(g2, BLUE, FALSE)

\* applyLEDsFromResponse returning early on an empty response
applyLEDsSkipEmpty(g, resp) ==
  IF Len(resp) = 0 THEN g
  ELSE LET g1 == IF indexOf(resp, redMarker) >= 0
                 THEN setLED(g, RED, TRUE) ELSE setLED(g, RED, FALSE)
           g2 == IF indexOf(resp, greenMarker) >= 0
                 THEN setLED(g1, GREEN, TRUE) ELSE setLED(g1, GREEN, FALSE)
       IN IF indexOf(resp, blueMarker) >= 0
          THEN setLED(g2, BLUE, TRUE) ELSE setLED(g2, BLUE, FALSE)

\* applyLEDsFromResponse with the RED test searching for the green marker
applyLEDsRedFromGreen(g, resp) ==
  LET g1 == IF indexOf(resp, greenMarker) >= 0
            THEN setLED(g, RED, TRUE) ELSE setLED(g, RED, FALSE)
      g2 == IF indexOf(resp, greenMarker) >= 0
            THEN setLED(g1, GREEN, TRUE) ELSE setLED(g1, GREEN, FALSE)
  IN IF indexOf(resp, blueMarker) >= 0
     THEN setLED(g2, BLUE, TRUE) ELSE setLED(g2, BLUE, FALSE)

applyLEDsFromResponse(g, resp) ==
  LET g1 == IF indexOf(resp, redMarker) >= 0
            THEN setLED(g, RED, TRUE) ELSE setLED(g, RED, FALSE)
      g2 == IF indexOf(resp, greenMarker) >= 0
            THEN setLED(g1, GREEN, TRUE) ELSE setLED(g1, GREEN, FALSE)
  IN IF indexOf(resp, blueMarker) >= 0
     THEN setLED(g2, BLUE, TRUE) ELSE setLED(g2, BLUE, FALSE)

\* ------------------------------------------------------------------------
\* Initial state: power-on, before setup() runs. The pin levels are whatever
\* the hardware holds.
\* ------------------------------------------------------------------------
Init ==
  /\ pc = "serial"
  /\ gpio \in {[level |-> l, writes |-> 0] : l \in [Pins -> {LOW, HIGH}]}
  /\ wifiBegun = FALSE
  /\ wifiStatus = "WL_IDLE_STATUS"
  /\ statusCode = 0
  /\ response = <<>>
  /\ requests = 0
  /\ polled = FALSE
  /\ delays = 0
  /\ lastDelayMs = 0
  /\ levelBefore = gpio.level
  /\ prevOk = FALSE
  /\ hadGood = FALSE
  /\ prevGoodBody = <<>>
  /\ prevGoodLevel = AllLow

\* ------------------------------------------------------------------------
\* setup()
\* ------------------------------------------------------------------------
\* initSerialAndLEDs, lines 110-111: Serial.begin, then spin until Serial
SerialWait ==
  /\ pc = "serial"
  /\ \E ready \in BOOLEAN : pc' = IF ready THEN "leds" ELSE "serial"
  /\ UNCHANGED <<gpio, wifiBegun, wifiStatus, statusCode, response, requests,
                 polled, delays, lastDelayMs, levelBefore, prevOk, hadGood,
                 prevGoodBody, prevGoodLevel>>

\* initSerialAndLEDs configuring the pins without writing LOW to them
InitLEDsModeOnly ==
  /\ pc = "leds"
  /\ pc' = "begin"
  /\ UNCHANGED gpio
  /\ UNCHANGED <<wifiBegun, wifiStatus, statusCode, response, requests,
                 polled, delays, lastDelayMs, levelBefore, prevOk, hadGood,
                 prevGoodBody, prevGoodLevel>>

\* initSerialAndLEDs, lines 114-123: pinMode x3, digitalWrite LOW x3
InitLEDs ==
  /\ pc = "leds"
  /\ gpio' = digitalWrite(digitalWrite(digitalWrite(gpio, RED, LOW), GREEN, LOW), BLUE, LOW)
  /\ pc' = "begin"
  /\ UNCHANGED <<wifiBegun, wifiStatus, statusCode, response, requests,
                 polled, delays, lastDelayMs, levelBefore, prevOk, hadGood,
                 prevGoodBody, prevGoodLevel>>

\* connectWiFi, lines 137-138
WiFiBegin ==
  /\ pc = "begin"
  /\ wifiBegun' = TRUE
  /\ pc' = "connect"
  /\ UNCHANGED <<gpio, wifiStatus, statusCode, response, requests,
                 polled, delays, lastDelayMs, levelBefore, prevOk, hadGood,
                 prevGoodBody, prevGoodLevel>>

\* connectWiFi, lines 141-149: one test of the while condition; delay(500)
\* and again when not connected, otherwise setup() returns and loop() starts
ConnectPoll ==
  /\ pc = "connect"
  /\ \E st \in WiFiStatuses :
       /\ wifiStatus' = st
       /\ IF st # WL_CONNECTED
          THEN /\ delays' = Bump(delays)
               /\ lastDelayMs' = ConnectDelayMs
               /\ pc' = "connect"
          ELSE /\ pc' = "poll"
               /\ UNCHANGED <<delays, lastDelayMs>>
  /\ UNCHANGED <<gpio, wifiBegun, statusCode, response, requests,
                 polled, levelBefore, prevOk, hadGood, prevGoodBody, prevGoodLevel>>

\* ------------------------------------------------------------------------
\* loop()
\* ------------------------------------------------------------------------
\* lines 77-81 and fetchFirebase, lines 164-176
FetchFrom(bodySet) ==
  /\ pc = "poll"
  /\ \E st \in StatusCodes, body \in bodySet :
       /\ statusCode' = st
       /\ response' = body
  /\ requests' = Bump(requests)
  /\ polled' = TRUE
  /\ delays' = 0
  /\ levelBefore' = gpio.level
  /\ gpio' = [gpio EXCEPT !.writes = 0]
  /\ pc' = "apply"
  /\ UNCHANGED <<wifiBegun, wifiStatus, lastDelayMs, prevOk, hadGood,
                 prevGoodBody, prevGoodLevel>>

Fetch == FetchFrom(Bodies)

\* loop() applying the body on every status from 200 upwards
ApplyFrom200Up ==
  /\ pc = "apply"
  /\ IF statusCode >= HTTP_OK
     THEN gpio' = applyLEDsFromResponse(gpio, response)
     ELSE UNCHANGED gpio
  /\ pc' = "wait"
  /\ UNCHANGED <<wifiBegun, wifiStatus, statusCode, response, requests, polled,
                 delays, lastDelayMs, levelBefore, prevOk, hadGood,
                 prevGoodBody, prevGoodLevel>>

\* loop() switching every LED off when the status is not 200
ApplyClearOnError ==
  /\ pc = "apply"
  /\ IF statusCode = HTTP_OK
     THEN gpio' = applyLEDsFromResponse(gpio, response)
     ELSE gpio' = setLED(setLED(setLED(gpio, RED, FALSE), GREEN, FALSE), BLUE, FALSE)
  /\ pc' = "wait"
  /\ UNCHANGED <<wifiBegun, wifiStatus, statusCode, response, requests, polled,
                 delays, lastDelayMs, levelBefore, prevOk, hadGood,
                 prevGoodBody, prevGoodLevel>>

\* loop() treating a transport error (negative status) as fatal
ApplyHaltOnError ==
  /\ pc = "apply"
  /\ IF statusCode = HTTP_OK
     THEN gpio' = applyLEDsFromResponse(gpio, response)
     ELSE UNCHANGED gpio
  /\ pc' = IF statusCode < 0 THEN "halt" ELSE "wait"
  /\ UNCHANGED <<wifiBegun, wifiStatus, statusCode, response, requests, polled,
                 delays, lastDelayMs, levelBefore, prevOk, hadGood,
                 prevGoodBody, prevGoodLevel>>

\* lines 84-90
Apply ==
  /\ pc = "apply"
  /\ IF statusCode = HTTP_OK
     THEN gpio' = applyLEDsFromResponse(gpio, response)
     ELSE UNCHANGED gpio
  /\ pc' = "wait"
  /\ UNCHANGED <<wifiBegun, wifiStatus, statusCode, response, requests, polled,
                 delays, lastDelayMs, levelBefore, prevOk, hadGood,
                 prevGoodBody, prevGoodLevel>>

\* loop() returning without the delay when the status is not 200
DelaySkippedOnError ==
  /\ pc = "wait"
  /\ IF statusCode = HTTP_OK
     THEN /\ delays' = Bump(delays)
          /\ lastDelayMs' = LoopDelayMs
          /\ hadGood' = TRUE
          /\ prevGoodBody' = response
          /\ prevGoodLevel' = gpio.level
     ELSE UNCHANGED <<delays, lastDelayMs, hadGood, prevGoodBody, prevGoodLevel>>
  /\ prevOk' = (statusCode = HTTP_OK)
  /\ statusCode' = 0
  /\ response' = <<>>
  /\ requests' = 0
  /\ pc' = "poll"
  /\ UNCHANGED <<gpio, wifiBegun, wifiStatus, polled, levelBefore>>

\* line 93: delay(2000); loop() returns and its locals are destroyed
Delay ==
  /\ pc = "wait"
  /\ delays' = Bump(delays)
  /\ lastDelayMs' = LoopDelayMs
  /\ prevOk' = (statusCode = HTTP_OK)
  /\ IF statusCode = HTTP_OK
     THEN /\ hadGood' = TRUE
          /\ prevGoodBody' = response
          /\ prevGoodLevel' = gpio.level
     ELSE UNCHANGED <<hadGood, prevGoodBody, prevGoodLevel>>
  /\ statusCode' = 0
  /\ response' = <<>>
  /\ requests' = 0
  /\ pc' = "poll"
  /\ UNCHANGED <<gpio, wifiBegun, wifiStatus, polled, levelBefore>>

Next == SerialWait \/ InitLEDs \/ WiFiBegin \/ ConnectPoll \/ Fetch \/ Apply \/ Delay

Spec == Init /\ [][Next]_vars

\* The same program polling a server that answers from a handful of bodies:
\* progress of the loop does not depend on the text returned, and the
\* smaller set keeps the fair behaviours checkable.
LiveBodies == {<<>>, <<"{", "}">>, Scenario1, Scenario2, TruncatedRed, RedTrailing}

FetchLive == FetchFrom(LiveBodies)

LiveNext == SerialWait \/ InitLEDs \/ WiFiBegin \/ ConnectPoll \/ FetchLive \/ Apply \/ Delay

\* Weak fairness of the loop steps: loop() is called again as soon as it
\* returns, and each blocking call (the GET, the delay) is taken to return.
\* No fairness on the connect loop: the link may never come up.
LiveSpec ==
  Init /\ [][LiveNext]_vars /\ WF_vars(FetchLive) /\ WF_vars(Apply) /\ WF_vars(Delay)

\* ------------------------------------------------------------------------
\* Vocabulary of the properties
\* ------------------------------------------------------------------------
\* text t occurs in body b
Contains(b, t) ==
  \E i \in 1..(Len(b) - Len(t) + 1) : \A j \in 1..Len(t) : b[i + j - 1] = t[j]

\* the literal "k":true and "k":false
MarkerTrue(k) == KeyPart(k) \o TrueText
MarkerFalse(k) == KeyPart(k) \o FalseText

DesiredState(b) == [k \in Pins |-> IF Contains(b, MarkerTrue(k)) THEN HIGH ELSE LOW]

CycleDone == pc = "wait"
CycleOk == pc = "wait" /\ statusCode = HTTP_OK
CycleFailed == pc = "wait" /\ statusCode # HTTP_OK

\* ------------------------------------------------------------------------
\* C1: after a status-200 cycle, pin k is HIGH if and only if the body
\* contains the literal "k":true, and LOW otherwise.
\* ------------------------------------------------------------------------
C1_PinIffMarker ==
  CycleOk =>
    \A k \in Pins :
      /\ gpio.level[k] \in {LOW, HIGH}
      /\ gpio.level[k] = HIGH <=> Contains(response, MarkerTrue(k))

\* Scenario 2 applied over a state where RED was on and GREEN was off
C1_Witness ==
  /\ CycleOk
  /\ response = Scenario2
  /\ levelBefore[RED] = HIGH /\ levelBefore[GREEN] = LOW
  /\ gpio.level = [k \in Pins |-> IF k = GREEN THEN HIGH ELSE LOW]

\* ------------------------------------------------------------------------
\* C2: a cycle whose status is not 200 writes no pin, whatever body came
\* with it; the pin levels after the cycle equal the levels before it.
\* ------------------------------------------------------------------------
C2_HoldOnNon200 ==
  CycleFailed => gpio.writes = 0 /\ gpio.level = levelBefore

\* status 404 with a body that asks for RED on, GREEN off
C2_Witness ==
  /\ CycleFailed
  /\ statusCode = 404
  /\ Contains(response, MarkerTrue(RED)) /\ ~Contains(response, MarkerTrue(GREEN))
  /\ gpio.level[RED] = LOW /\ gpio.level[GREEN] = HIGH

\* ------------------------------------------------------------------------
\* C3 as stated: every failed cycle (non-200 status, connection loss, or an
\* empty body, the empty body with status 200 included) leaves the pin
\* levels as they were before the cycle.
\* ------------------------------------------------------------------------
C3_HoldOnEveryFailure ==
  (CycleDone /\ (statusCode # HTTP_OK \/ response = <<>>)) => gpio.level = levelBefore

\* C3 amended: a cycle with a non-200 status (connection loss and empty
\* bodies included) leaves the pin levels as they were; an empty body that
\* arrives with status 200 drives all three pins LOW.
C3_HoldUnlessStatus200 ==
  /\ CycleFailed => gpio.level = levelBefore
  /\ (CycleOk /\ response = <<>>) => gpio.level = AllLow

\* an empty body with status 200 turning off pins that were on
C3_Witness ==
  /\ CycleOk
  /\ response = <<>>
  /\ levelBefore[RED] = HIGH /\ levelBefore[BLUE] = HIGH
  /\ gpio.level = AllLow

\* ------------------------------------------------------------------------
\* C4 as stated: on a status-200 cycle, an indicator whose key appears in a
\* body that is not a flat object of plain boolean members is computed false
\* and its pin is driven LOW.
\* ------------------------------------------------------------------------
PlainKinds == {"absent", "true", "false"}
WellFormedBodies == {Render(vr, vg, vb) : vr \in PlainKinds, vg \in PlainKinds, vb \in PlainKinds}

HasKey(b, k) == Contains(b, KeyPart(k))
AffectedByMalformed(b, k) == b \notin WellFormedBodies /\ HasKey(b, k)

\* some occurrence of "k": in b is directly followed by the text true
KeyThenTrue(b, k) ==
  \E i \in 0..(Len(b) - Len(KeyPart(k)) - Len(TrueText)) :
    /\ SubSeq(b, i + 1, i + Len(KeyPart(k))) = KeyPart(k)
    /\ SubSeq(b, i + Len(KeyPart(k)) + 1, i + Len(KeyPart(k)) + Len(TrueText)) = TrueText

C4_MalformedIsFalse ==
  CycleOk =>
    \A k \in Pins : AffectedByMalformed(response, k) => gpio.level[k] = LOW

\* C4 amended: on a status-200 cycle, an indicator whose key appears in a
\* malformed body is LOW exactly when no occurrence of its key is directly
\* followed by the text true (value false, quoted, numeric, upper-case,
\* preceded by a space, or cut short); malformed content that still holds
\* the literal "k":true (cut right after it, or followed by more text)
\* drives the pin HIGH.
C4_MalformedFalseUnlessMarker ==
  CycleOk =>
    \A k \in Pins :
      AffectedByMalformed(response, k) =>
        /\ ~KeyThenTrue(response, k) => gpio.level[k] = LOW
        /\ KeyThenTrue(response, k) => gpio.level[k] = HIGH

\* a quoted "true" for GREEN and BLUE turning both off, a plain RED staying on
C4_Witness ==
  /\ CycleOk
  /\ response = Render("true", "quoted", "quoted")
  /\ levelBefore = [k \in Pins |-> HIGH]
  /\ gpio.level = [k \in Pins |-> IF k = RED THEN HIGH ELSE LOW]

\* ------------------------------------------------------------------------
\* C5: setup() drives the three pins LOW before it starts the network
\* connection; until the link reports connected no GET is issued and every
\* pin stays LOW; while WiFi.status() is not WL_CONNECTED the controller
\* stays in the connect loop.
\* ------------------------------------------------------------------------
SetupStates == {"serial", "leds", "begin", "connect"}

C5_InitBeforePolling ==
  /\ [](/\ pc \in SetupStates => ~polled /\ requests = 0
        /\ wifiBegun => pc \notin {"serial", "leds"}
        /\ pc \in {"begin", "connect"} => gpio.level = AllLow)
  /\ [][/\ (pc = "connect" /\ wifiStatus' # WL_CONNECTED) => (pc' = "connect" /\ ~polled')
        /\ (pc \in SetupStates /\ pc' \notin SetupStates) =>
             (pc = "connect" /\ wifiStatus' = WL_CONNECTED /\ gpio'.level = AllLow)]_vars

\* still waiting for the link after repeated failed status reads, with pins
\* that were not all LOW at power-on
C5_Witness ==
  /\ pc = "connect"
  /\ wifiStatus = "WL_CONNECT_FAILED"
  /\ delays >= 2
  /\ levelBefore = [k \in Pins |-> HIGH]
  /\ gpio.level = AllLow
  /\ ~polled

\* ------------------------------------------------------------------------
\* C6: once setup() has returned, every poll is followed by the apply step,
\* the apply step by the wait, and the wait by a new poll, whatever status
\* codes and bodies come back.
\* ------------------------------------------------------------------------
C6_PollsForever ==
  /\ (pc = "poll") ~> (pc = "apply")
  /\ (pc = "apply") ~> (pc = "wait")
  /\ (pc = "wait") ~> (pc = "poll")

\* about to poll again after a cycle that failed
C6_Witness ==
  /\ pc = "poll"
  /\ polled
  /\ hadGood
  /\ ~prevOk

\* ------------------------------------------------------------------------
\* C7: each cycle issues exactly one GET, and between two consecutive GETs
\* there is exactly one delay, of 2000 ms, whether the earlier status was
\* 200 or not.
\* ------------------------------------------------------------------------
C7_OneGetOneWait ==
  /\ pc \in {"apply", "wait"} => requests = 1
  /\ pc = "poll" => requests = 0
  /\ (pc = "poll" /\ polled) => (delays = 1 /\ lastDelayMs = LoopDelayMs)
  /\ pc \in {"apply", "wait"} => delays = 0

\* about to issue the next GET after a non-200 cycle
C7_Witness ==
  /\ pc = "poll"
  /\ polled
  /\ ~prevOk
  /\ delays = 1

\* ------------------------------------------------------------------------
\* C8: applying the same body twice in succession (status 200 both times)
\* leaves the same pin levels after the second application as after the
\* first.
\* ------------------------------------------------------------------------
C8_Idempotent ==
  (CycleOk /\ prevOk /\ prevGoodBody = response) => gpio.level = prevGoodLevel

\* the same body, turning something on, applied twice in a row
C8_Witness ==
  /\ CycleOk
  /\ prevOk
  /\ prevGoodBody = response
  /\ gpio.level[GREEN] = HIGH /\ gpio.level[RED] = LOW
  /\ gpio.writes = 3

\* ------------------------------------------------------------------------
\* C9 as stated: two bodies that differ only in the marker of one indicator
\* ("k":true replaced by "k":false, or removed, or added) give the same
\* levels on the pins of the other two indicators.
\* ------------------------------------------------------------------------
\* text t occurs in b across position i (it starts before i and ends after)
Straddles(b, i, t) ==
  \E a \in 0..(Len(b) - Len(t)) :
    a < i /\ a + Len(t) > i /\ SubSeq(b, a + 1, a + Len(t)) = t

\* b2 is b1 with one occurrence of form m1 of k's marker replaced by form m2;
\* the empty form stands for the marker being absent. With guarded, a
\* removal or insertion counts only when no other indicator's marker lies
\* across the point where the marker is taken out or put in.
DiffersOnlyInMarker(b1, b2, k, guarded) ==
  LET forms == {MarkerTrue(k), MarkerFalse(k), <<>>} IN
  \E i \in 0..Len(b1), m1 \in forms, m2 \in forms :
    /\ m1 # m2
    /\ i + Len(m1) <= Len(b1)
    /\ SubSeq(b1, i + 1, i + Len(m1)) = m1
    /\ b2 = SubSeq(b1, 1, i) \o m2 \o SubSeq(b1, i + Len(m1) + 1, Len(b1))
    /\ (guarded /\ (m1 = <<>> \/ m2 = <<>>)) =>
         \A j \in Pins \ {k} :
           /\ ~Straddles(SubSeq(b1, 1, i) \o SubSeq(b1, i + Len(m1) + 1, Len(b1)), i, MarkerTrue(j))

C9_Independent ==
  (CycleOk /\ hadGood) =>
    \A k \in Pins :
      DiffersOnlyInMarker(prevGoodBody, response, k, FALSE) =>
        \A j \in Pins \ {k} : gpio.level[j] = prevGoodLevel[j]

\* C9 amended: two bodies that differ only in that "k":true is replaced by
\* "k":false (or the reverse), or in that k's marker is removed or added at
\* a point where no other indicator's marker lies across the cut, give the
\* same levels on the pins of the other two indicators.
C9_IndependentUnlessJoined ==
  (CycleOk /\ hadGood) =>
    \A k \in Pins :
      DiffersOnlyInMarker(prevGoodBody, response, k, TRUE) =>
        \A j \in Pins \ {k} : gpio.level[j] = prevGoodLevel[j]

\* Scenario 1, then the same body with "green":true replaced by "green":false
C9_Witness ==
  /\ CycleOk
  /\ hadGood
  /\ prevGoodBody = Scenario1
  /\ response = Render("true", "false", "true")
  /\ DiffersOnlyInMarker(prevGoodBody, response, GREEN, TRUE)
  /\ gpio.level = [k \in Pins |-> IF k = GREEN THEN LOW ELSE HIGH]

\* ------------------------------------------------------------------------
\* C10: whenever a cycle has completed, the pin levels are the desired
\* state of the body of the most recent status-200 cycle, or all LOW when
\* there has been none since setup().
\* ------------------------------------------------------------------------
C10_LastGoodState ==
  CycleDone =>
    gpio.level = IF statusCode = HTTP_OK THEN DesiredState(response)
                 ELSE IF hadGood THEN DesiredState(prevGoodBody)
                 ELSE AllLow

\* a second failed cycle in a row still showing the last good body
C10_Witness ==
  /\ CycleFailed
  /\ hadGood
  /\ ~prevOk
  /\ prevGoodBody = Scenario2
  /\ response = Scenario1
  /\ gpio.level = [k \in Pins |-> IF k = GREEN THEN HIGH ELSE LOW]

====
